---- MODULE Spec2Model ----
(***************************************************************************)
(* Model of evb_lan9692_model.py: the primitive constructors cbox and      *)
(* ccyl, the rotated cylinders that build_board assembles inline, and the  *)
(* pipeline of main (build, up-axis conversion, scene assembly, export).   *)
(*                                                                         *)
(* Lengths are integers; vertex coordinates are kept in thousandths of a   *)
(* length unit, so that the half extents of a box are exact.  A rotation   *)
(* by a multiple of a quarter turn is an integer matrix (numpy's cos(pi/2) *)
(* of 6e-17 is taken as 0).                                                *)
(***************************************************************************)
EXTENDS Integers, Sequences, FiniteSets, TLC

VARIABLES
    pc,        \* position of main: "build", "convert", "assemble", "export", "done"
    meshes,    \* the list build_board returns and main iterates over
    layout,    \* the arguments of the call site that made each part of meshes
    native,    \* the parts as build_board returned them (Z up), before main touches them
    cur,       \* the cylinder build_board is rotating and placing inline, or NoMesh
    idx,       \* loop index of main's two for-loops (0-based, as enumerate)
    scene,     \* trimesh.Scene: geometry store and graph nodes
    call,      \* the constructor or scene call last made (arguments)
    ret,       \* what that call returned, or NoMesh
    raised,    \* the exception the call raised, or "none"
    io,        \* what main did to the outside: export attempts, the file, the prints
    run,       \* two runs of build_board side by side: generator, parts, candidates
    pass       \* the loop counter of the section build_board is in

vars == <<pc, meshes, layout, native, cur, idx, scene, call, ret, raised, io, run, pass>>

----------------------------------------------------------------------------
(* Bounds of the model *)

MaxParts == 2     \* parts build_board appends
MaxDim   == 2     \* extents, radii and heights range over 1..MaxDim
MaxSec   == 6     \* cylinder sections range over 3..MaxSec
MaxPos   == 1     \* positions are multiples 0..MaxPos of a fixed offset
MaxJson  == 5     \* the serialised JSON text is 1..MaxJson bytes long
MaxEntry == 1     \* the generator is in one of MaxEntry + 1 states when build_board is entered

----------------------------------------------------------------------------
(* Colours: src lines 26-55 *)

C_PCB_TOP == <<0, 85, 30, 255>>
C_BARREL  == <<45, 45, 48, 255>>
C_VIA     == <<170, 150, 75, 255>>

Palette == {C_PCB_TOP, C_BARREL}

\* trimesh's colour of a face nobody has coloured
DefaultFaceColor == <<102, 102, 102, 255>>

----------------------------------------------------------------------------
(* Vectors and matrices *)

Abs(x) == IF x < 0 THEN -x ELSE x

VecAdd(u, v) == <<u[1] + v[1], u[2] + v[2], u[3] + v[3]>>

VecScale(k, v) == <<k * v[1], k * v[2], k * v[3]>>

Dot(u, v) == u[1] * v[1] + u[2] * v[2] + u[3] * v[3]

MatVec(M, v) == <<Dot(M[1], v), Dot(M[2], v), Dot(M[3], v)>>

Identity3 == <<<<1, 0, 0>>, <<0, 1, 0>>, <<0, 0, 1>>>>

\* cos and sin of q quarter turns
CosQ(q) == LET k == q % 4 IN IF k = 0 THEN 1 ELSE IF k = 2 THEN -1 ELSE 0

SinQ(q) == LET k == q % 4 IN IF k = 1 THEN 1 ELSE IF k = 3 THEN -1 ELSE 0

\* trimesh.transformations.rotation_matrix(q * pi/2, [1, 0, 0])
rotation_matrix_x(q) ==
    <<<<1, 0, 0>>,
      <<0, CosQ(q), -SinQ(q)>>,
      <<0, SinQ(q), CosQ(q)>>>>

\* rot_x of build_board and rot_to_yup of main
rot_x == rotation_matrix_x(1)

\* mutants of rot_to_yup: a half turn; a quarter turn the other way
rot_half_turn == rotation_matrix_x(2)

rot_plus_quarter == rotation_matrix_x(1)

rot_to_yup == rotation_matrix_x(-1)

(* 1000 * sin(pi * a / b) for 0 <= a <= b, by Bhaskara's rational form;     *)
(* exact at 0, 30, 90, 150 and 180 degrees, within 2 thousandths elsewhere. *)
Sin1000(a, b) == (16000 * a * (b - a)) \div (5 * b * b - 4 * a * (b - a))

\* 1000 * sin(2 pi k / n) and 1000 * cos(2 pi k / n)
SinTurn(k, n) ==
    LET a == (4 * k) % (4 * n)
        b == 2 * n
    IN  IF a <= b THEN Sin1000(a, b) ELSE -Sin1000(a - b, b)

CosTurn(k, n) ==
    LET a == (4 * k + n) % (4 * n)
        b == 2 * n
    IN  IF a <= b THEN Sin1000(a, b) ELSE -Sin1000(a - b, b)

----------------------------------------------------------------------------
(* Meshes.  ops is the history of the operations applied to the mesh.      *)

NoMesh == [verts |-> <<>>, faces |-> <<>>, colors |-> <<>>, ops |-> <<>>]

Op(name, M) == [op |-> name, mat |-> M]

\* trimesh.creation.box(extents=[w, h, d]): the unit cube scaled, centred at 0
BoxUnitVerts ==
    <<<<-1, -1, -1>>, <<-1, -1, 1>>, <<-1, 1, -1>>, <<-1, 1, 1>>,
      <<1, -1, -1>>, <<1, -1, 1>>, <<1, 1, -1>>, <<1, 1, 1>>>>

BoxFaces ==
    <<<<2, 4, 1>>, <<5, 2, 1>>, <<1, 4, 3>>, <<3, 5, 1>>,
      <<2, 8, 4>>, <<6, 2, 5>>, <<6, 8, 2>>, <<4, 8, 3>>,
      <<7, 5, 3>>, <<3, 8, 7>>, <<7, 6, 5>>, <<8, 6, 7>>>>

\* mutant of box: one corner, not the centre, at the origin
box_from_corner(w, h, d) ==
    [verts  |-> [k \in 1..8 |->
                    <<(BoxUnitVerts[k][1] + 1) * w * 500,
                      (BoxUnitVerts[k][2] + 1) * h * 500,
                      (BoxUnitVerts[k][3] + 1) * d * 500>>],
     faces  |-> BoxFaces,
     colors |-> [f \in 1..12 |-> DefaultFaceColor],
     ops    |-> <<[op |-> "create", mat |-> Identity3]>>]

box(w, h, d) ==
    [verts  |-> [k \in 1..8 |->
                    <<BoxUnitVerts[k][1] * w * 500,
                      BoxUnitVerts[k][2] * h * 500,
                      BoxUnitVerts[k][3] * d * 500>>],
     faces  |-> BoxFaces,
     colors |-> [f \in 1..12 |-> DefaultFaceColor],
     ops    |-> <<Op("create", Identity3)>>]

(* trimesh.creation.cylinder(radius, height, sections): the profile         *)
(* (0,-half) (r,-half) (r,half) (0,half) revolved about Z in `sections`     *)
(* slices, the axis points of all slices merged.  Vertices: bottom axis     *)
(* point, ring 0 bottom, ring 0 top, top axis point, then bottom and top of *)
(* rings 1..sections-1.                                                     *)
RingBottom(k) == IF k = 0 THEN 2 ELSE 2 * k + 3

RingTop(k) == IF k = 0 THEN 3 ELSE 2 * k + 4

CylinderVerts(r, h, sec) ==
    LET half == Abs(h) * 500
        ring(k, z) == <<r * CosTurn(k, sec), r * SinTurn(k, sec), z>>
    IN  [j \in 1..(2 * sec + 2) |->
            IF j = 1 THEN <<0, 0, -half>>
            ELSE IF j = 4 THEN <<0, 0, half>>
            ELSE IF j = 2 THEN ring(0, -half)
            ELSE IF j = 3 THEN ring(0, half)
            ELSE IF j % 2 = 1 THEN ring((j - 3) \div 2, -half)
            ELSE ring((j - 4) \div 2, half)]

\* the four triangles of slice k: bottom cap, two of the side quad, top cap
SliceFaces(k, sec) ==
    LET n  == (k + 1) % sec
    IN  <<<<RingBottom(k), 1, RingBottom(n)>>,
          <<RingBottom(k), RingBottom(n), RingTop(k)>>,
          <<RingTop(k), RingBottom(n), RingTop(n)>>,
          <<RingTop(k), RingTop(n), 4>>>>

Cross(u, w) ==
    <<u[2] * w[3] - u[3] * w[2], u[3] * w[1] - u[1] * w[3], u[1] * w[2] - u[2] * w[1]>>

ZeroArea(vs, f) ==
    Cross(VecAdd(vs[f[2]], VecScale(-1, vs[f[1]])),
          VecAdd(vs[f[3]], VecScale(-1, vs[f[1]]))) = <<0, 0, 0>>

\* revolve keeps, in every slice, the triangles that have an area in slice 0
KeptTriangles(vs, sec) ==
    SelectSeq(<<1, 2, 3, 4>>, LAMBDA t : ~ZeroArea(vs, SliceFaces(0, sec)[t]))

CylinderFaces(vs, sec) ==
    LET kept == KeptTriangles(vs, sec)
        per  == Len(kept)
    IN  [f \in 1..(per * sec) |->
            SliceFaces((f - 1) \div per, sec)[kept[((f - 1) % per) + 1]]]

revolve(r, h, sec) ==
    LET vs == CylinderVerts(r, h, sec)
        fs == CylinderFaces(vs, sec)
    IN  [verts  |-> vs,
         faces  |-> fs,
         colors |-> [f \in 1..Len(fs) |-> DefaultFaceColor],
         ops    |-> <<Op("create", Identity3)>>]

\* mutant of cylinder: no more than four sections are made
cylinder_capped(r, h, sec) == revolve(r, h, IF sec > 4 THEN 4 ELSE sec)

cylinder(r, h, sec) == revolve(r, h, sec)

\* Trimesh.apply_translation(pos): pos in length units
apply_translation(m, pos) ==
    [m EXCEPT !.verts = [k \in 1..Len(m.verts) |-> VecAdd(m.verts[k], VecScale(1000, pos))],
              !.ops = Append(@, Op("translate", Identity3))]

\* Trimesh.apply_transform(matrix), for a pure rotation matrix
apply_transform(m, M) ==
    [m EXCEPT !.verts = [k \in 1..Len(m.verts) |-> MatVec(M, m.verts[k])],
              !.ops = Append(@, Op("transform", M))]

\* mutant of set_face_colors: only the first face is coloured
set_first_face_color(m, color) ==
    [m EXCEPT !.colors = [f \in 1..Len(m.faces) |-> IF f = 1 THEN color ELSE m.colors[f]],
              !.ops = Append(@, Op("color", Identity3))]

\* m.visual.face_colors = color: the colour is broadcast to every face
set_face_colors(m, color) ==
    [m EXCEPT !.colors = [f \in 1..Len(m.faces) |-> color],
              !.ops = Append(@, Op("color", Identity3))]

\* m.apply_transform(rot_to_yup): Z up to Y up
convert_up_axis(m) == apply_transform(m, rot_to_yup)

\* def cbox(w, h, d, color, pos)
cbox(w, h, d, color, pos) ==
    set_face_colors(apply_translation(box(w, h, d), pos), color)

\* def ccyl(r, h, color, pos, sec)
ccyl(r, h, color, pos, sec) ==
    set_face_colors(apply_translation(cylinder(r, h, sec), pos), color)

----------------------------------------------------------------------------
(* Inputs *)

Dims == 1..MaxDim

\* what a caller may pass for an extent: negative, zero or positive
AnyDims == (-1)..MaxDim

\* a zero radius or height leaves revolve nothing to keep; callers never pass one
NonZeroDims == AnyDims \ {0}

AnySections == 2..MaxSec

Sections == 3..MaxSec

\* sections of the cylinders build_board rotates inline (6, 12, 16, 24: all even)
EvenSections == {s \in Sections : s % 2 = 0}

Positions == {<<3 * k, -k, 2 * k>> : k \in 0..MaxPos}

Args(fn, a, b, c, color, pos) ==
    [fn |-> fn, a |-> a, b |-> b, c |-> c, color |-> color, pos |-> pos, name |-> <<>>]

NoCall == Args("none", 0, 0, 0, DefaultFaceColor, <<0, 0, 0>>)

----------------------------------------------------------------------------
(* trimesh.Scene *)

EmptyScene == [geometry |-> <<>>, nodes |-> <<>>]

(* Scene.add_geometry(m, node_name=name): the geometry is stored under the *)
(* generated key "geometry_<len>", and graph.update points the node `name` *)
(* at it, creating the node when the graph has none of that name.          *)
add_geometry(s, m, name) ==
    LET key   == Len(s.geometry)
        where == {k \in 1..Len(s.nodes) : s.nodes[k].name = name}
    IN  [geometry |-> Append(s.geometry, [key |-> key, mesh |-> m]),
         nodes    |-> IF where = {}
                      THEN Append(s.nodes, [name |-> name, geometry |-> key])
                      ELSE [k \in 1..Len(s.nodes) |->
                              IF k \in where
                              THEN [name |-> name, geometry |-> key]
                              ELSE s.nodes[k]]]

\* the decimal digits of n, most significant first
RECURSIVE DecDigits(_)
DecDigits(n) ==
    LET digit == <<"0", "1", "2", "3", "4", "5", "6", "7", "8", "9">>[(n % 10) + 1]
    IN  IF n < 10 THEN <<digit>> ELSE Append(DecDigits(n \div 10), digit)

\* format(n, "03d"): zero-padded to a width of at least three
RECURSIVE ZeroPad(_, _)
ZeroPad(ds, width) == IF Len(ds) >= width THEN ds ELSE ZeroPad(<<"0">> \o ds, width)

\* mutant of NodeName: exactly three digits
NodeNameThreeDigits(i) == <<"p">> \o ZeroPad(DecDigits(i % 1000), 3)

\* f"p{i:03d}"
NodeName(i) == <<"p">> \o ZeroPad(DecDigits(i), 3)

----------------------------------------------------------------------------
(* The output file and the console *)

NoFile == [exists |-> FALSE, magic |-> 0, version |-> 0, total |-> 0,
           jsonLen |-> 0, binLen |-> 0, size |-> 0]

NoIo == [attempts |-> 0, failures |-> 0, file |-> NoFile, sizeRead |-> FALSE,
         printed |-> <<>>]

\* what open() or write() can fail with when the file cannot be created or written
IoCauses == {"FileNotFoundError", "PermissionError", "OSError"}

\* _byte_pad: the length of a buffer padded to a multiple of four bytes
BytePad(n) == n + ((4 - (n % 4)) % 4)

(* The buffers of one mesh: uint32 indices, float32 positions, and the     *)
(* uint8 RGBA colour of every vertex; each padded on its own.              *)
MeshBytes(m) ==
    BytePad(Len(m.faces) * 3 * 4) + BytePad(Len(m.verts) * 3 * 4) + BytePad(Len(m.verts) * 4)

RECURSIVE BufferBytes(_, _)
BufferBytes(g, n) == IF n = 0 THEN 0 ELSE BufferBytes(g, n - 1) + MeshBytes(g[n].mesh)

\* mutant of PadContent: the JSON text is written as it is
PadContentNot(n) == n

\* content += (4 - ((len(content) + 20) % 4)) * " "
PadContent(n) == n + (4 - ((n + 20) % 4))

(* export_glb: header (magic "glTF", version 2, total length), the length  *)
(* and type of the JSON chunk, the JSON text padded with spaces, the       *)
(* length and type of the BIN chunk, the buffers.  n is the length of the  *)
(* JSON text as serialised.                                                *)
Glb(s, n) ==
    LET content == PadContent(n)
        buffer  == BufferBytes(s.geometry, Len(s.geometry))
    IN  [exists  |-> TRUE,
         magic   |-> 1179937895,
         version |-> 2,
         total   |-> content + buffer + 28,
         jsonLen |-> content,
         binLen  |-> buffer,
         size    |-> 20 + content + 8 + buffer]

----------------------------------------------------------------------------
(* build_board, as main sees it: a sequence of appends *)

Init ==
    /\ pc = "build"
    /\ meshes = <<>>
    /\ layout = <<>>
    /\ native = <<>>
    /\ cur = NoMesh
    /\ idx = 0
    /\ scene = EmptyScene
    /\ call = NoCall
    /\ ret = NoMesh
    /\ raised = "none"
    /\ io = NoIo
    /\ run = <<>>
    /\ pass = 0

(* The call sites of build_board differ in their literals only; main never  *)
(* looks at them.  A call site is drawn by its size s: extents that differ   *)
(* on the three axes, and a position off every axis and plane.               *)
Place(s) == <<3 * s, -s, 2 * s>>

\* meshes.append(cbox(w, h, d, color, pos))
AppendBox ==
    /\ pc = "build" /\ cur = NoMesh /\ Len(meshes) < MaxParts
    /\ \E s \in Dims :
          /\ meshes' = Append(meshes, cbox(s + 2, s + 1, s, C_PCB_TOP, Place(s)))
          /\ layout' = Append(layout, Args("cbox", s + 2, s + 1, s, C_PCB_TOP, Place(s)))
    /\ UNCHANGED <<pc, cur, idx, scene, call, ret, raised, native, io, run, pass>>

\* meshes.append(ccyl(r, h, color, pos, sec))
AppendCyl ==
    /\ pc = "build" /\ cur = NoMesh /\ Len(meshes) < MaxParts
    /\ \E s \in Dims :
          /\ meshes' = Append(meshes, ccyl(s, s + 1, C_VIA, Place(s), MaxSec))
          /\ layout' = Append(layout, Args("ccyl", s, s + 1, MaxSec, C_VIA, Place(s)))
    /\ UNCHANGED <<pc, cur, idx, scene, call, ret, raised, native, io, run, pass>>

\* barrel = cylinder(radius=r, height=h, sections=sec)      (lines 379, 420, ...)
InlineCreate ==
    /\ pc = "build" /\ cur = NoMesh /\ Len(meshes) < MaxParts
    /\ \E s \in Dims, sec \in EvenSections :
          /\ cur' = cylinder(s, s + 2, sec)
          /\ call' = Args("inline", s, s + 2, sec, C_BARREL, Place(s))
    /\ UNCHANGED <<pc, meshes, layout, idx, scene, ret, raised, native, io, run, pass>>

\* mutant of InlineNext: the translation comes before the rotation
InlineNextTranslateFirst(m, a) ==
    IF Len(m.ops) = 1 THEN apply_translation(m, a.pos)
    ELSE IF Len(m.ops) = 2 THEN apply_transform(m, rot_x)
    ELSE set_face_colors(m, a.color)

(* The next statement of the inline block on mesh m:                       *)
(*   barrel.apply_transform(rot_x)                                         *)
(*   barrel.apply_translation([x, y, z])                                   *)
(*   barrel.visual.face_colors = color                                     *)
InlineNext(m, a) ==
    IF Len(m.ops) = 1 THEN apply_transform(m, rot_x)
    ELSE IF Len(m.ops) = 2 THEN apply_translation(m, a.pos)
    ELSE set_face_colors(m, a.color)

InlineStep ==
    /\ pc = "build" /\ cur # NoMesh /\ Len(cur.ops) < 4
    /\ cur' = InlineNext(cur, call)
    /\ UNCHANGED <<pc, meshes, layout, idx, scene, call, ret, raised, native, io, run, pass>>

\* meshes.append(barrel)
InlineAppend ==
    /\ pc = "build" /\ cur # NoMesh /\ Len(cur.ops) = 4
    /\ meshes' = Append(meshes, cur)
    /\ layout' = Append(layout, call)
    /\ cur' = NoMesh
    /\ call' = NoCall
    /\ UNCHANGED <<pc, idx, scene, ret, raised, native, io, run, pass>>

\* return meshes
BuildReturn ==
    /\ pc = "build" /\ cur = NoMesh /\ Len(meshes) >= 1
    /\ pc' = "convert"
    /\ idx' = 0
    /\ native' = meshes
    /\ UNCHANGED <<meshes, layout, cur, scene, call, ret, raised, io, run, pass>>

----------------------------------------------------------------------------
(* main *)

\* mutant of ConvertStep: the loop starts at the second part
ConvertSkipsFirst ==
    /\ pc = "convert" /\ idx < Len(meshes)
    /\ meshes' = IF idx = 0 THEN meshes
                 ELSE [meshes EXCEPT ![idx + 1] = apply_transform(@, rot_to_yup)]
    /\ idx' = idx + 1
    /\ UNCHANGED <<pc, layout, cur, scene, call, ret, raised, native, io, run, pass>>

\* for m in meshes: m.apply_transform(rot_to_yup)
ConvertStep ==
    /\ pc = "convert" /\ idx < Len(meshes)
    /\ meshes' = [meshes EXCEPT ![idx + 1] = convert_up_axis(@)]
    /\ idx' = idx + 1
    /\ UNCHANGED <<pc, layout, cur, scene, call, ret, raised, native, io, run, pass>>

\* scene = trimesh.Scene()
ConvertDone ==
    /\ pc = "convert" /\ idx = Len(meshes)
    /\ pc' = "assemble"
    /\ idx' = 0
    /\ scene' = EmptyScene
    /\ UNCHANGED <<meshes, layout, cur, call, ret, raised, native, io, run, pass>>

\* for i, m in enumerate(meshes): scene.add_geometry(m, node_name=f"p{i:03d}")
AssembleStep ==
    /\ pc = "assemble" /\ idx < Len(meshes)
    /\ scene' = add_geometry(scene, meshes[idx + 1], NodeName(idx))
    /\ idx' = idx + 1
    /\ UNCHANGED <<pc, meshes, layout, cur, call, ret, raised, native, io, run, pass>>

AssembleDone ==
    /\ pc = "assemble" /\ idx = Len(meshes)
    /\ pc' = "export"
    /\ UNCHANGED <<meshes, layout, cur, idx, scene, call, ret, raised, native, io, run, pass>>

\* mutant of Export: the parts are converted once more on the way out
ExportAfterConverting ==
    /\ pc = "export"
    /\ \E n \in 1..MaxJson :
          io' = [io EXCEPT !.attempts = @ + 1, !.file = Glb(scene, n)]
    /\ meshes' = [i \in 1..Len(meshes) |-> convert_up_axis(meshes[i])]
    /\ pc' = "report"
    /\ UNCHANGED <<layout, cur, idx, scene, call, ret, raised, native, run, pass>>

\* scene.export(out, file_type='glb') returns: the file is written
Export ==
    /\ pc = "export"
    /\ \E n \in 1..MaxJson :
          io' = [io EXCEPT !.attempts = @ + 1, !.file = Glb(scene, n)]
    /\ pc' = "report"
    /\ UNCHANGED <<meshes, layout, cur, idx, scene, call, ret, raised, native, run, pass>>

\* mutant of ExportFails: the failure is swallowed and the export tried again
ExportRetries ==
    /\ pc = "export" /\ io.attempts < 2
    /\ \E cause \in IoCauses :
          io' = [io EXCEPT !.attempts = @ + 1, !.failures = @ + 1]
    /\ UNCHANGED <<pc, meshes, layout, cur, idx, scene, call, ret, raised, native, run, pass>>

(* scene.export raises: main has no try, so the exception leaves main and  *)
(* nothing after line 845 runs.                                            *)
ExportFails ==
    /\ pc = "export"
    /\ \E cause \in IoCauses :
          /\ raised' = cause
          /\ io' = [io EXCEPT !.attempts = @ + 1, !.failures = @ + 1]
    /\ pc' = "failed"
    /\ UNCHANGED <<meshes, layout, cur, idx, scene, call, ret, native, run, pass>>

\* print("Exported"), os.path.getsize(out), the remaining prints, "Done!"
Report ==
    /\ pc = "report"
    /\ io' = [io EXCEPT !.sizeRead = TRUE,
                        !.printed = @ \o <<"Exported", "File size", "Board", "Components",
                                           "New", "Done!">>]
    /\ pc' = "done"
    /\ UNCHANGED <<meshes, layout, cur, idx, scene, call, ret, raised, native, run, pass>>

Next ==
    \/ AppendBox
    \/ AppendCyl
    \/ InlineCreate
    \/ InlineStep
    \/ InlineAppend
    \/ BuildReturn
    \/ ConvertStep
    \/ ConvertDone
    \/ AssembleStep
    \/ AssembleDone
    \/ Export
    \/ ExportFails
    \/ Report

Spec == Init /\ [][Next]_vars

----------------------------------------------------------------------------
(* The constructors called on their own, with whatever a caller passes     *)

PrimInit ==
    /\ pc = "prim"
    /\ meshes = <<>>
    /\ layout = <<>>
    /\ native = <<>>
    /\ cur = NoMesh
    /\ idx = 0
    /\ scene = EmptyScene
    /\ call = NoCall
    /\ ret = NoMesh
    /\ raised = "none"
    /\ io = NoIo
    /\ run = <<>>
    /\ pass = 0

\* cbox(w, h, d, color, pos): no statement of cbox or of box raises
CallCbox ==
    /\ pc = "prim"
    /\ \E w \in AnyDims, h \in AnyDims, d \in AnyDims, color \in Palette, pos \in Positions :
          /\ call' = Args("cbox", w, h, d, color, pos)
          /\ ret' = cbox(w, h, d, color, pos)
          /\ raised' = "none"
    /\ pc' = "returned"
    /\ UNCHANGED <<meshes, layout, cur, idx, scene, native, io, run, pass>>

\* ccyl(r, h, color, pos, sec): no statement of ccyl or of cylinder raises
CallCcyl ==
    /\ pc = "prim"
    /\ \E r \in NonZeroDims, h \in NonZeroDims, sec \in AnySections,
          color \in Palette, pos \in Positions :
          /\ call' = Args("ccyl", r, h, sec, color, pos)
          /\ ret' = ccyl(r, h, color, pos, sec)
          /\ raised' = "none"
    /\ pc' = "returned"
    /\ UNCHANGED <<meshes, layout, cur, idx, scene, native, io, run, pass>>

PrimNext ==
    \/ CallCbox
    \/ CallCcyl

PrimSpec == PrimInit /\ [][PrimNext]_vars

----------------------------------------------------------------------------
(* scene.add_geometry called with names the caller supplies                *)

MaxAdds == 3

ManualNames == {NodeName(0), NodeName(1), <<"l", "i", "d">>}

SampleParts == {cbox(1, 1, 1, C_PCB_TOP, <<0, 0, 0>>), cbox(1, 2, 1, C_BARREL, <<0, 0, 0>>)}

SceneInit ==
    /\ pc = "scene"
    /\ meshes = <<>>
    /\ layout = <<>>
    /\ native = <<>>
    /\ cur = NoMesh
    /\ idx = 0
    /\ scene = EmptyScene
    /\ call = NoCall
    /\ ret = NoMesh
    /\ raised = "none"
    /\ io = NoIo
    /\ run = <<>>
    /\ pass = 0

\* scene.add_geometry(m, node_name=name): no statement of it raises on a name in use
SceneAdd ==
    /\ pc = "scene" /\ Len(scene.geometry) < MaxAdds
    /\ \E m \in SampleParts, name \in ManualNames :
          /\ call' = [NoCall EXCEPT !.fn = "add_geometry", !.name = name]
          /\ scene' = add_geometry(scene, m, name)
          /\ raised' = "none"
    /\ UNCHANGED <<pc, meshes, layout, cur, idx, ret, native, io, run, pass>>

SceneNext == SceneAdd

SceneSpec == SceneInit /\ [][SceneNext]_vars

----------------------------------------------------------------------------
(* The randomized sections of build_board, two runs side by side.          *)
(* Lengths are in ten-thousandths of a millimetre.                         *)

MM == 10000

BW == 2140000
BH == 1500000
BT == 15350
Z0 == BT \div 2
ZB == -(BT \div 2)

C_CAP_BROWN == <<100, 70, 40, 255>>
C_CAP_GRAY  == <<75, 75, 78, 255>>
C_RESISTOR  == <<20, 20, 22, 255>>

\* cx, cy = BW * 0.42, BH * 0.52
ic_cx == (BW * 42) \div 100
ic_cy == (BH * 52) \div 100

sfp_d == 580000
exp_x == BW - 52 * MM
exp_y == BH - 48 * MM

(* np.random: a deterministic generator.  Its state is a number below      *)
(* Modulus; every draw steps the state and scales the new state to the     *)
(* range asked for.  The step function is one of Algs, the same in both    *)
(* runs; what differs between two runs is the state at entry.              *)
Modulus == 1024

Algs == {[a |-> 5, c |-> 1], [a |-> 13, c |-> 7]}

EntryStates == {(e * 333 + 17) % Modulus : e \in 0..MaxEntry}

Step(alg, g) == (alg.a * g + alg.c) % Modulus

\* mutant of seed: the call leaves the generator as it was
seed_ignored(g, n) == g

\* np.random.seed(n): the state becomes a function of n alone
seed(g, n) == (n * 37) % Modulus

\* np.random.uniform(lo, hi), from the draw u
uniform(lo, hi, u) == lo + ((hi - lo) * u) \div Modulus

\* np.random.choice(list), from the draw u
choice(list, u) == list[(u * Len(list)) \div Modulus + 1]

\* np.random.random() > 0.25, from the draw u
AboveQuarter(u) == 4 * u > Modulus

\* mutant of in_exclusion_zone: the SFP area is not excluded
in_exclusion_zone_no_sfp(px, py) ==
    \/ Abs(px - ic_cx) < 14 * MM /\ Abs(py - ic_cy) < 14 * MM
    \/ py < 15 * MM /\ px < 150 * MM
    \/ py > BH - 5 * MM
    \/ Abs(px - exp_x) < 28 * MM /\ Abs(py - exp_y) < 5 * MM

in_exclusion_zone(px, py) ==
    \/ Abs(px - ic_cx) < 14 * MM /\ Abs(py - ic_cy) < 14 * MM
    \/ py < 15 * MM /\ px < 150 * MM
    \/ py < sfp_d /\ px > 148 * MM
    \/ py > BH - 5 * MM
    \/ Abs(px - exp_x) < 28 * MM /\ Abs(py - exp_y) < 5 * MM

\* s[:n]
Take(s, n) == SubSeq(s, 1, IF Len(s) < n THEN Len(s) ELSE n)

Part(section, c) == [sec |-> section, call |-> c]

Emit(r, section, c) == [r EXCEPT !.parts = Append(@, Part(section, c))]

Reject(r, section, px, py) ==
    [r EXCEPT !.rejected = Append(@, [sec |-> section, x |-> px, y |-> py])]

NewRun(alg, g) ==
    [alg |-> alg, entry |-> g, g |-> g, parts |-> <<>>, cands |-> <<>>, rejected |-> <<>>]

NCaps       == 24
NCandidates == 120
CapLimit    == 80
NResistors  == 50
NVias       == 150
NBottom     == 30

\* one pass of the loop of lines 177-183, for the j-th angle
DecouplingCap1(r, j) ==
    LET dx   == ic_cx + (12 * MM * CosTurn(j, NCaps)) \div 1000
        dy   == ic_cy + (12 * MM * SinTurn(j, NCaps)) \div 1000
        u    == Step(r.alg, r.g)
        size == choice(<<6000, 8000, 10000>>, u)
    IN  IF 15 * MM < dx /\ dx < BW - 5 * MM /\ 15 * MM < dy /\ dy < BH - 5 * MM
        THEN Emit([r EXCEPT !.g = u], "decoupling",
                  Args("cbox", size, (size * 5) \div 10, (size * 4) \div 10, C_CAP_BROWN,
                       <<dx, dy, Z0 + (size * 2) \div 10>>))
        ELSE r

\* one pass of the loop of lines 651-655
CapCandidate1(r) ==
    LET u1  == Step(r.alg, r.g)
        u2  == Step(r.alg, u1)
        cx_ == uniform(8 * MM, BW - 8 * MM, u1)
        cy_ == uniform(18 * MM, BH - 6 * MM, u2)
    IN  IF ~in_exclusion_zone(cx_, cy_)
        THEN [r EXCEPT !.g = u2, !.cands = Append(@, <<cx_, cy_>>)]
        ELSE Reject([r EXCEPT !.g = u2], "capacitor", cx_, cy_)

\* one pass of the loop of lines 657-661, for the j-th kept position
CapEmit1(r, j) ==
    LET kept == Take(r.cands, CapLimit)
        u1   == Step(r.alg, r.g)
        u2   == Step(r.alg, u1)
        size == choice(<<4000, 6000, 8000, 10000, 16000, 20000>>, u1)
        h    == (size * 45) \div 100
        col  == IF AboveQuarter(u2) THEN C_CAP_BROWN ELSE C_CAP_GRAY
    IN  IF j <= Len(kept)
        THEN Emit([r EXCEPT !.g = u2], "capacitor",
                  Args("cbox", size, (size * 55) \div 100, h, col,
                       <<kept[j][1], kept[j][2], Z0 + h \div 2>>))
        ELSE r

\* lines 664-667: the five electrolytic capacitors, body and stripe
ElectrolyticAt ==
    <<  <<12 * MM, BH - 8 * MM>>, <<BW - 15 * MM, BH - 15 * MM>>, <<85 * MM, BH - 10 * MM>>,
        <<12 * MM, BH - 35 * MM>>, <<BW - 12 * MM, BH - 30 * MM>>  >>

Electrolytics1(r) ==
    [r EXCEPT !.parts = @ \o [n \in 1..(2 * Len(ElectrolyticAt)) |->
        LET e == ElectrolyticAt[(n + 1) \div 2]
        IN  IF n % 2 = 1
            THEN Part("electrolytic",
                      Args("cbox", 35000, 30000, 25000, <<40, 35, 30, 255>>,
                           <<e[1], e[2], Z0 + 12500>>))
            ELSE Part("electrolytic",
                      Args("cbox", 35000, 5000, 25000, <<180, 160, 100, 255>>,
                           <<e[1], e[2] + 15000, Z0 + 12500>>))]]

\* one pass of the loop of lines 673-679
Resistor1(r) ==
    LET u1   == Step(r.alg, r.g)
        u2   == Step(r.alg, u1)
        u3   == Step(r.alg, u2)
        rx   == uniform(12 * MM, BW - 12 * MM, u1)
        ry   == uniform(20 * MM, BH - 8 * MM, u2)
        size == choice(<<4000, 6000, 10000>>, u3)
    IN  IF ~in_exclusion_zone(rx, ry)
        THEN Emit([r EXCEPT !.g = u3], "resistor",
                  Args("cbox", size, (size * 5) \div 10, (size * 3) \div 10, C_RESISTOR,
                       <<rx, ry, Z0 + (size * 15) \div 100>>))
        ELSE Reject([r EXCEPT !.g = u2], "resistor", rx, ry)

\* one pass of the loop of lines 777-781
Via1(r) ==
    LET u1 == Step(r.alg, r.g)
        u2 == Step(r.alg, u1)
        vx == uniform(4 * MM, BW - 4 * MM, u1)
        vy == uniform(4 * MM, BH - 4 * MM, u2)
    IN  IF ~in_exclusion_zone(vx, vy)
        THEN Emit([r EXCEPT !.g = u2], "via",
                  Args("ccyl", 2500, 1500, 8, C_VIA, <<vx, vy, Z0 + 1200>>))
        ELSE Reject([r EXCEPT !.g = u2], "via", vx, vy)

\* lines 784-789: the grid of stitching vias, i over range(20), j over range(5)
StitchGrid == [n \in 1..(20 * 5) |->
                  <<145 * MM + ((n - 1) \div 5) * 35000, 10 * MM + ((n - 1) % 5) * 8 * MM>>]

StitchKept(p) == p[1] < BW - 3 * MM

ViaStitching1(r) ==
    LET at == SelectSeq(StitchGrid, StitchKept)
    IN  [r EXCEPT !.parts = @ \o [n \in 1..Len(at) |->
             Part("stitching",
                  Args("ccyl", 2000, 1200, 8, C_VIA, <<at[n][1], at[n][2], Z0 + 1100>>))]]

\* one pass of the loop of lines 819-825
Bottom1(r) ==
    LET u1   == Step(r.alg, r.g)
        u2   == Step(r.alg, u1)
        u3   == Step(r.alg, u2)
        bx   == uniform(15 * MM, BW - 15 * MM, u1)
        by   == uniform(15 * MM, BH - 15 * MM, u2)
        size == choice(<<6000, 8000, 10000>>, u3)
    IN  IF ~in_exclusion_zone(bx, by)
        THEN Emit([r EXCEPT !.g = u3], "bottom",
                  Args("cbox", size, (size * 5) \div 10, (size * 35) \div 100, C_CAP_BROWN,
                       <<bx, by, ZB - (size * 175) \div 1000>>))
        ELSE Reject([r EXCEPT !.g = u2], "bottom", bx, by)

\* the loop counter after one more pass of a loop of n passes
Advance(n, after) ==
    /\ pass' = IF pass + 1 < n THEN pass + 1 ELSE 0
    /\ pc' = IF pass + 1 < n THEN pc ELSE after

Rest == <<meshes, layout, native, cur, idx, scene, call, ret, raised, io>>

RandInit ==
    /\ pc = "decoupling"
    /\ meshes = <<>>
    /\ layout = <<>>
    /\ native = <<>>
    /\ cur = NoMesh
    /\ idx = 0
    /\ scene = EmptyScene
    /\ call = NoCall
    /\ ret = NoMesh
    /\ raised = "none"
    /\ io = NoIo
    /\ pass = 0
    /\ \E alg \in Algs, g1 \in EntryStates, g2 \in EntryStates :
          run = <<NewRun(alg, g1), NewRun(alg, g2)>>

DecouplingCap ==
    /\ pc = "decoupling"
    /\ run' = [i \in 1..2 |-> DecouplingCap1(run[i], pass)]
    /\ Advance(NCaps, "seed42")
    /\ UNCHANGED Rest

\* np.random.seed(42), seed(99), seed(77), seed(55)
Reseed ==
    /\ pc \in {"seed42", "seed99", "seed77", "seed55"}
    /\ LET n == CASE pc = "seed42" -> 42 [] pc = "seed99" -> 99
                  [] pc = "seed77" -> 77 [] OTHER -> 55
       IN  run' = [i \in 1..2 |-> [run[i] EXCEPT !.g = seed(@, n)]]
    /\ pc' = CASE pc = "seed42" -> "candidates" [] pc = "seed99" -> "resistors"
               [] pc = "seed77" -> "vias" [] OTHER -> "bottom"
    /\ pass' = 0
    /\ UNCHANGED Rest

CapCandidate ==
    /\ pc = "candidates"
    /\ run' = [i \in 1..2 |-> CapCandidate1(run[i])]
    /\ Advance(NCandidates, "capacitors")
    /\ UNCHANGED Rest

CapEmit ==
    /\ pc = "capacitors"
    /\ run' = [i \in 1..2 |-> CapEmit1(run[i], pass + 1)]
    /\ LET n1 == Len(Take(run[1].cands, CapLimit))
           n2 == Len(Take(run[2].cands, CapLimit))
       IN  Advance(IF n1 > n2 THEN n1 ELSE n2, "electrolytics")
    /\ UNCHANGED Rest

Electrolytics ==
    /\ pc = "electrolytics"
    /\ run' = [i \in 1..2 |-> Electrolytics1(run[i])]
    /\ pc' = "seed99"
    /\ UNCHANGED <<pass, meshes, layout, native, cur, idx, scene, call, ret, raised, io>>

Resistor ==
    /\ pc = "resistors"
    /\ run' = [i \in 1..2 |-> Resistor1(run[i])]
    /\ Advance(NResistors, "seed77")
    /\ UNCHANGED Rest

Via ==
    /\ pc = "vias"
    /\ run' = [i \in 1..2 |-> Via1(run[i])]
    /\ Advance(NVias, "stitching")
    /\ UNCHANGED Rest

ViaStitching ==
    /\ pc = "stitching"
    /\ run' = [i \in 1..2 |-> ViaStitching1(run[i])]
    /\ pc' = "seed55"
    /\ UNCHANGED <<pass, meshes, layout, native, cur, idx, scene, call, ret, raised, io>>

Bottom ==
    /\ pc = "bottom"
    /\ run' = [i \in 1..2 |-> Bottom1(run[i])]
    /\ Advance(NBottom, "board")
    /\ UNCHANGED Rest

RandNext ==
    \/ DecouplingCap
    \/ Reseed
    \/ CapCandidate
    \/ CapEmit
    \/ Electrolytics
    \/ Resistor
    \/ Via
    \/ ViaStitching
    \/ Bottom

RandSpec == RandInit /\ [][RandNext]_vars

----------------------------------------------------------------------------
(* The constructor calls of build_board, site by site.  A site is a call   *)
(* of cbox, ccyl or cylinder in the text of build_board; dims is the set   *)
(* of dimension triples the site is called with (extents of a box; radius, *)
(* height and sections of a cylinder), one triple for each value of the    *)
(* loop variables and random sizes it reads.  Where the part is put and    *)
(* what colour it gets are left out: no precondition reads them.           *)

edge_h == BT + 3000
chamfer == 25000

matenet_w == 115000
matenet_d == 95000
matenet_h == 85000
slot_w == 50000
slot_h == 45000

sfp_w == 142000
sfp_h == 135000
sfp_wall == 4000

rj_w == 160000
rj_h == 135000
rj_d == 215000

\* mutant of inductor_pos: the last inductor is 1 mm wide
inductor_pos_thin ==
    {<<65000, 65000, 40000>>, <<55000, 55000, 35000>>, <<10000, 45000, 30000>>}

\* (iw, ih, id_) of the rows of inductor_pos
inductor_pos ==
    {<<65000, 65000, 40000>>, <<55000, 55000, 35000>>, <<45000, 45000, 30000>>}

\* (lw, lh) of the rows of ref_labels
ref_labels == {<<30000, 10000>>, <<40000, 12000>>}

Sites == <<
    [line |-> 108, fn |-> "cbox", dims |-> {<<BW, BH, BT>>}],
    [line |-> 112, fn |-> "cbox", dims |-> {<<BW - 1000, BH - 1000, 1500>>}],
    [line |-> 117, fn |-> "cbox", dims |-> {<<BW, 3000, edge_h>>}],
    [line |-> 119, fn |-> "cbox", dims |-> {<<BW, 3000, edge_h>>}],
    [line |-> 121, fn |-> "cbox", dims |-> {<<3000, BH, edge_h>>}],
    [line |-> 123, fn |-> "cbox", dims |-> {<<3000, BH, edge_h>>}],
    [line |-> 127, fn |-> "cbox", dims |-> {<<BW + 1000, 1000, 500>>}],
    [line |-> 128, fn |-> "cbox", dims |-> {<<BW + 1000, 1000, 500>>}],
    [line |-> 129, fn |-> "cbox", dims |-> {<<1000, BH + 1000, 500>>}],
    [line |-> 130, fn |-> "cbox", dims |-> {<<1000, BH + 1000, 500>>}],
    [line |-> 137, fn |-> "cbox", dims |-> {<<chamfer, chamfer, BT + 5000>>}],
    [line |-> 147, fn |-> "ccyl", dims |-> {<<35000, 1500, 24>>}],
    [line |-> 149, fn |-> "ccyl", dims |-> {<<30000, 80000, 24>>}],
    [line |-> 151, fn |-> "ccyl", dims |-> {<<32000, 4000, 24>>}],
    [line |-> 153, fn |-> "ccyl", dims |-> {<<16000, 85000, 24>>}],
    [line |-> 155, fn |-> "ccyl", dims |-> {<<35000, 1500, 24>>}],
    [line |-> 162, fn |-> "cbox", dims |-> {<<180000, 180000, 1000>>}],
    [line |-> 164, fn |-> "cbox", dims |-> {<<170000, 170000, 18000>>}],
    [line |-> 166, fn |-> "cbox", dims |-> {<<140000, 140000, 1500>>}],
    [line |-> 168, fn |-> "ccyl", dims |-> {<<7000, 2000, 16>>}],
    [line |-> 170, fn |-> "cbox", dims |-> {<<100000, 6000, 1500>>}],
    [line |-> 171, fn |-> "cbox", dims |-> {<<100000, 6000, 1500>>}],
    [line |-> 172, fn |-> "cbox", dims |-> {<<100000, 6000, 1500>>}],
    [line |-> 174, fn |-> "cbox", dims |-> {<<40000, 12000, 1500>>}],
    [line |-> 182, fn |-> "cbox", dims |-> {<<size, (size * 5) \div 10, (size * 4) \div 10>> : size \in {6000, 8000, 10000}}],
    [line |-> 188, fn |-> "cbox", dims |-> {<<300000, 60000, 1000>>}],
    [line |-> 189, fn |-> "cbox", dims |-> {<<220000, 30000, 1000>>}],
    [line |-> 191, fn |-> "cbox", dims |-> {<<250000, 25000, 1000>>}],
    [line |-> 193, fn |-> "cbox", dims |-> {<<120000, 15000, 1000>>}],
    [line |-> 195, fn |-> "cbox", dims |-> {<<180000, 12000, 1000>>}],
    [line |-> 213, fn |-> "cbox", dims |-> {<<matenet_w, matenet_d, matenet_h>>}],
    [line |-> 219, fn |-> "cbox", dims |-> {<<slot_w, 18000, slot_h>>}],
    [line |-> 223, fn |-> "cbox", dims |-> {<<matenet_w - 10000, 6000, 10000>>}],
    [line |-> 225, fn |-> "cbox", dims |-> {<<matenet_w - 10000, 6000, 8000>>}],
    [line |-> 228, fn |-> "cbox", dims |-> {<<15000, 6000, matenet_h - 20000>>}],
    [line |-> 232, fn |-> "cbox", dims |-> {<<60000, matenet_d - 20000, 12000>>}],
    [line |-> 234, fn |-> "cbox", dims |-> {<<40000, 15000, 6000>>}],
    [line |-> 240, fn |-> "cbox", dims |-> {<<4000, matenet_d - 30000, 8000>>}],
    [line |-> 244, fn |-> "cbox", dims |-> {<<6000, 10000, 30000>>}],
    [line |-> 246, fn |-> "cbox", dims |-> {<<6000, 10000, 30000>>}],
    [line |-> 251, fn |-> "cbox", dims |-> {<<10000, 6000, 2000>>}],
    [line |-> 256, fn |-> "cbox", dims |-> {<<20000, 15000, 1500>>}],
    [line |-> 260, fn |-> "cbox", dims |-> {<<35000, 18000, 800>>}],
    [line |-> 264, fn |-> "cbox", dims |-> {<<16000, 8000, 10000>>}],
    [line |-> 266, fn |-> "cbox", dims |-> {<<16000, 8000, 10000>>}],
    [line |-> 269, fn |-> "cbox", dims |-> {<<20000, 8000, 800>>}],
    [line |-> 270, fn |-> "cbox", dims |-> {<<20000, 8000, 800>>}],
    [line |-> 288, fn |-> "cbox", dims |-> {<<sfp_w, sfp_d, sfp_wall>>}],
    [line |-> 289, fn |-> "cbox", dims |-> {<<sfp_w, sfp_d, sfp_wall>>}],
    [line |-> 290, fn |-> "cbox", dims |-> {<<sfp_wall, sfp_d, sfp_h>>}],
    [line |-> 291, fn |-> "cbox", dims |-> {<<sfp_wall, sfp_d, sfp_h>>}],
    [line |-> 292, fn |-> "cbox", dims |-> {<<sfp_w, sfp_wall, sfp_h>>}],
    [line |-> 295, fn |-> "cbox", dims |-> {<<sfp_w + 10000, 20000, sfp_h + 10000>>}],
    [line |-> 297, fn |-> "cbox", dims |-> {<<sfp_w - 20000, 25000, sfp_h - 30000>>}],
    [line |-> 300, fn |-> "cbox", dims |-> {<<sfp_w - 20000, sfp_d - 80000, 5000>>}],
    [line |-> 302, fn |-> "cbox", dims |-> {<<sfp_w - 20000, sfp_d - 80000, 5000>>}],
    [line |-> 307, fn |-> "cbox", dims |-> {<<sfp_w - 40000, 15000, 4000>>}],
    [line |-> 312, fn |-> "cbox", dims |-> {<<10000, 3000, 8000>>}],
    [line |-> 316, fn |-> "cbox", dims |-> {<<15000, 8000, 10000>>}],
    [line |-> 319, fn |-> "cbox", dims |-> {<<30000, 8000, 800>>}],
    [line |-> 322, fn |-> "cbox", dims |-> {<<40000, 15000, 800>>}],
    [line |-> 331, fn |-> "cbox", dims |-> {<<rj_w, rj_h, rj_d>>}],
    [line |-> 332, fn |-> "cbox", dims |-> {<<rj_w + 5000, 5000, rj_d>>}],
    [line |-> 334, fn |-> "cbox", dims |-> {<<120000, 30000, 100000>>}],
    [line |-> 336, fn |-> "cbox", dims |-> {<<80000, 10000, 20000>>}],
    [line |-> 339, fn |-> "cbox", dims |-> {<<30000, 20000, 30000>>}],
    [line |-> 341, fn |-> "cbox", dims |-> {<<30000, 20000, 30000>>}],
    [line |-> 345, fn |-> "cbox", dims |-> {<<15000, 10000, rj_d>>}],
    [line |-> 354, fn |-> "cbox", dims |-> {<<90000, 75000, 32000>>}],
    [line |-> 355, fn |-> "cbox", dims |-> {<<75000, 20000, 24000>>}],
    [line |-> 356, fn |-> "ccyl", dims |-> {<<11000, 20000, 12>>}],
    [line |-> 357, fn |-> "ccyl", dims |-> {<<11000, 20000, 12>>}],
    [line |-> 359, fn |-> "cbox", dims |-> {<<20000, 10000, 32000>>}],
    [line |-> 360, fn |-> "cbox", dims |-> {<<20000, 10000, 32000>>}],
    [line |-> 362, fn |-> "cbox", dims |-> {<<12000, 6000, 8000>>}],
    [line |-> 364, fn |-> "cbox", dims |-> {<<12000, 6000, 8000>>}],
    [line |-> 367, fn |-> "cbox", dims |-> {<<50000, 12000, 800>>}],
    [line |-> 368, fn |-> "cbox", dims |-> {<<20000, 8000, 800>>}],
    [line |-> 369, fn |-> "cbox", dims |-> {<<20000, 8000, 800>>}],
    [line |-> 379, fn |-> "cylinder", dims |-> {<<55000, 140000, 24>>}],
    [line |-> 385, fn |-> "cylinder", dims |-> {<<25000, 120000, 16>>}],
    [line |-> 391, fn |-> "cylinder", dims |-> {<<10000, 80000, 12>>}],
    [line |-> 397, fn |-> "cbox", dims |-> {<<120000, 40000, 80000>>}],
    [line |-> 399, fn |-> "cbox", dims |-> {<<60000, 15000, 800>>}],
    [line |-> 407, fn |-> "cbox", dims |-> {<<100000, 50000, 50000>>}],
    [line |-> 408, fn |-> "cbox", dims |-> {<<35000, 25000, 30000>>}],
    [line |-> 410, fn |-> "cbox", dims |-> {<<60000, 12000, 800>>}],
    [line |-> 413, fn |-> "cbox", dims |-> {<<15000, 8000, 10000>>}],
    [line |-> 414, fn |-> "cbox", dims |-> {<<15000, 8000, 10000>>}],
    [line |-> 420, fn |-> "cylinder", dims |-> {<<32000, 95000, 6>>}],
    [line |-> 426, fn |-> "cylinder", dims |-> {<<6500, 50000, 12>>}],
    [line |-> 432, fn |-> "cylinder", dims |-> {<<20000, 15000, 16>>}],
    [line |-> 438, fn |-> "cbox", dims |-> {<<80000, 30000, 80000>>}],
    [line |-> 439, fn |-> "cbox", dims |-> {<<50000, 15000, 1000>>}],
    [line |-> 447, fn |-> "cbox", dims |-> {<<260000, 80000, 60000>>}],
    [line |-> 448, fn |-> "cbox", dims |-> {<<220000, 20000, 40000>>}],
    [line |-> 449, fn |-> "cbox", dims |-> {<<60000, 10000, 20000>>}],
    [line |-> 451, fn |-> "cbox", dims |-> {<<80000, 15000, 800>>}],
    [line |-> 454, fn |-> "cbox", dims |-> {<<20000, 20000, 1500>>}],
    [line |-> 462, fn |-> "cbox", dims |-> {<<45000, 45000, 25000>>}],
    [line |-> 463, fn |-> "ccyl", dims |-> {<<15000, 20000, 16>>}],
    [line |-> 465, fn |-> "cbox", dims |-> {<<50000, 12000, 800>>}],
    [line |-> 473, fn |-> "cbox", dims |-> {<<110000, 52000, 35000>>}],
    [line |-> 475, fn |-> "cbox", dims |-> {<<18000, 20000, 15000>>}],
    [line |-> 478, fn |-> "cbox", dims |-> {<<80000, 10000, 1000>>}],
    [line |-> 480, fn |-> "cbox", dims |-> {<<50000, 8000, 800>>}],
    [line |-> 488, fn |-> "cbox", dims |-> {<<510000, 51000, 85000>>}],
    [line |-> 491, fn |-> "cbox", dims |-> {<<5000, 5000, 110000>>}],
    [line |-> 494, fn |-> "cbox", dims |-> {<<40000, 15000, 800>>}],
    [line |-> 502, fn |-> "cbox", dims |-> {<<135000, 51000, 60000>>}],
    [line |-> 505, fn |-> "cbox", dims |-> {<<4000, 4000, 80000>>}],
    [line |-> 508, fn |-> "cbox", dims |-> {<<50000, 12000, 800>>}],
    [line |-> 516, fn |-> "cbox", dims |-> {<<76200, 51000, 60000>>}],
    [line |-> 519, fn |-> "cbox", dims |-> {<<5000, 5000, 80000>>}],
    [line |-> 521, fn |-> "cbox", dims |-> {<<50000, 10000, 800>>}],
    [line |-> 529, fn |-> "cbox", dims |-> {<<50800, 25400, 60000>>}],
    [line |-> 531, fn |-> "cbox", dims |-> {<<5000, 5000, 80000>>}],
    [line |-> 542, fn |-> "cbox", dims |-> {<<50000, 50000, 1000>>}],
    [line |-> 544, fn |-> "cbox", dims |-> {<<70000, 70000, 9000>>}],
    [line |-> 546, fn |-> "ccyl", dims |-> {<<4000, 2000, 12>>}],
    [line |-> 548, fn |-> "cbox", dims |-> {<<40000, 4000, 1000>>}],
    [line |-> 552, fn |-> "cbox", dims |-> {<<10000, 5000, 5000>>}],
    [line |-> 556, fn |-> "cbox", dims |-> {<<16000, 8000, 6000>>}],
    [line |-> 564, fn |-> "cbox", dims |-> {<<50000, 50000, 1000>>}],
    [line |-> 565, fn |-> "cbox", dims |-> {<<60000, 60000, 9000>>}],
    [line |-> 566, fn |-> "ccyl", dims |-> {<<3500, 2000, 12>>}],
    [line |-> 569, fn |-> "cbox", dims |-> {<<8000, 5000, 4000>>}],
    [line |-> 576, fn |-> "cbox", dims |-> {<<50000, 40000, 12000>>}],
    [line |-> 577, fn |-> "cbox", dims |-> {<<35000, 25000, 1500>>}],
    [line |-> 580, fn |-> "cbox", dims |-> {<<4000, 8000, 2000>>}],
    [line |-> 582, fn |-> "cbox", dims |-> {<<4000, 8000, 2000>>}],
    [line |-> 586, fn |-> "cbox", dims |-> {<<110000, 150000, 1500>>}],
    [line |-> 588, fn |-> "cbox", dims |-> {<<40000, 15000, 800>>}],
    [line |-> 594, fn |-> "cbox", dims |-> {<<50000, 32000, 15000>>}],
    [line |-> 595, fn |-> "cbox", dims |-> {<<35000, 15000, 1500>>}],
    [line |-> 596, fn |-> "cbox", dims |-> {<<10000, 3000, 1000>>}],
    [line |-> 599, fn |-> "cbox", dims |-> {<<50000, 32000, 15000>>}],
    [line |-> 600, fn |-> "cbox", dims |-> {<<35000, 15000, 1500>>}],
    [line |-> 601, fn |-> "cbox", dims |-> {<<10000, 3000, 1000>>}],
    [line |-> 615, fn |-> "cbox", dims |-> {<<t[1], t[2], t[3]>> : t \in inductor_pos}],
    [line |-> 616, fn |-> "cbox", dims |-> {<<t[1] - 10000, t[2] - 10000, 2000>> : t \in inductor_pos}],
    [line |-> 618, fn |-> "cbox", dims |-> {<<t[1], 15000, 1500>> : t \in inductor_pos}],
    [line |-> 619, fn |-> "cbox", dims |-> {<<t[1], 15000, 1500>> : t \in inductor_pos}],
    [line |-> 624, fn |-> "cbox", dims |-> {<<35000, 35000, 1000>>}],
    [line |-> 625, fn |-> "cbox", dims |-> {<<50000, 40000, 9000>>}],
    [line |-> 627, fn |-> "cbox", dims |-> {<<10000, 6000, 5000>>}],
    [line |-> 628, fn |-> "cbox", dims |-> {<<10000, 6000, 5000>>}],
    [line |-> 661, fn |-> "cbox", dims |-> {<<size, (size * 55) \div 100, (size * 45) \div 100>> :
                size \in {4000, 6000, 8000, 10000, 16000, 20000}}],
    [line |-> 666, fn |-> "cbox", dims |-> {<<35000, 30000, 25000>>}],
    [line |-> 667, fn |-> "cbox", dims |-> {<<35000, 5000, 25000>>}],
    [line |-> 678, fn |-> "cbox", dims |-> {<<size, (size * 5) \div 10, (size * 3) \div 10>> : size \in {4000, 6000, 10000}}],
    [line |-> 687, fn |-> "cbox", dims |-> {<<32000, 16000, 6000>>}],
    [line |-> 690, fn |-> "cbox", dims |-> {<<50000, 50000, 9000>>}],
    [line |-> 691, fn |-> "ccyl", dims |-> {<<3000, 1500, 10>>}],
    [line |-> 694, fn |-> "cbox", dims |-> {<<50000, 50000, 9000>>}],
    [line |-> 695, fn |-> "ccyl", dims |-> {<<3000, 1500, 10>>}],
    [line |-> 698, fn |-> "cbox", dims |-> {<<30000, 30000, 8000>>}],
    [line |-> 704, fn |-> "cbox", dims |-> {<<25000, 15000, 6000>>}],
    [line |-> 707, fn |-> "cbox", dims |-> {<<40000, 30000, 8000>>}],
    [line |-> 708, fn |-> "cbox", dims |-> {<<40000, 30000, 8000>>}],
    [line |-> 716, fn |-> "cbox", dims |-> {<<15000, 8000, 10000>>}],
    [line |-> 717, fn |-> "cbox", dims |-> {<<30000, 10000, 1000>>}],
    [line |-> 719, fn |-> "cbox", dims |-> {<<6000, 3000, 3000>>}],
    [line |-> 722, fn |-> "cbox", dims |-> {<<15000, 8000, 10000>>}],
    [line |-> 723, fn |-> "cbox", dims |-> {<<15000, 8000, 10000>>}],
    [line |-> 724, fn |-> "cbox", dims |-> {<<20000, 8000, 800>>}],
    [line |-> 725, fn |-> "cbox", dims |-> {<<20000, 8000, 800>>}],
    [line |-> 733, fn |-> "cbox", dims |-> {<<80000, 1500, 1000>>}],
    [line |-> 734, fn |-> "cbox", dims |-> {<<80000, 1500, 1000>>}],
    [line |-> 735, fn |-> "cbox", dims |-> {<<1500, 80000, 1000>>}],
    [line |-> 736, fn |-> "cbox", dims |-> {<<1500, 80000, 1000>>}],
    [line |-> 739, fn |-> "cbox", dims |-> {<<BW - 200000, 2000, 1000>>}],
    [line |-> 740, fn |-> "cbox", dims |-> {<<2000, 300000, 1000>>}],
    [line |-> 741, fn |-> "cbox", dims |-> {<<2000, 300000, 1000>>}],
    [line |-> 745, fn |-> "cbox", dims |-> {<<2000, 180000, 1000>>}],
    [line |-> 747, fn |-> "cbox", dims |-> {<<180000, 2000, 1000>>}],
    [line |-> 759, fn |-> "cbox", dims |-> {<<t[1], t[2], 800>> : t \in ref_labels}],
    [line |-> 769, fn |-> "ccyl", dims |-> {<<8000, 2000, 12>>}],
    [line |-> 771, fn |-> "cbox", dims |-> {<<15000, 6000, 800>>}],
    [line |-> 781, fn |-> "ccyl", dims |-> {<<2500, 1500, 8>>}],
    [line |-> 789, fn |-> "ccyl", dims |-> {<<2000, 1200, 8>>}],
    [line |-> 795, fn |-> "cbox", dims |-> {<<700000, 450000, 800>>}],
    [line |-> 798, fn |-> "cbox", dims |-> {<<600000, 300000, 800>>}],
    [line |-> 801, fn |-> "cbox", dims |-> {<<250000, 250000, 800>>}],
    [line |-> 812, fn |-> "cbox", dims |-> {<<16000, 8000, 8000>>}],
    [line |-> 824, fn |-> "cbox", dims |-> {<<size, (size * 5) \div 10, (size * 35) \div 100>> : size \in {6000, 8000, 10000}}]
>>

SiteInit ==
    /\ pc = "site"
    /\ meshes = <<>>
    /\ layout = <<>>
    /\ native = <<>>
    /\ cur = NoMesh
    /\ idx = 0
    /\ scene = EmptyScene
    /\ call = NoCall
    /\ ret = NoMesh
    /\ raised = "none"
    /\ io = NoIo
    /\ run = <<>>
    /\ pass = 0

(* build_board reaches its next constructor call and makes it, with one of *)
(* the dimension triples of the site.  What the constructors return for    *)
(* given dimensions is the matter of CallCbox and CallCcyl.                *)
CallSite ==
    /\ pc = "site"
    /\ idx < Len(Sites)
    /\ \E d \in Sites[idx + 1].dims :
          call' = Args(Sites[idx + 1].fn, d[1], d[2], d[3], DefaultFaceColor, <<0, 0, 0>>)
    /\ idx' = idx + 1
    /\ UNCHANGED <<pc, meshes, layout, native, cur, scene, ret, raised, io, run, pass>>

SiteNext == CallSite

SiteSpec == SiteInit /\ [][SiteNext]_vars

----------------------------------------------------------------------------
(* Properties *)

Parts == 1..Len(meshes)

IsUpAxisOp(o) == o.op = "transform" /\ o.mat = rot_to_yup

\* how often the up-axis rotation has been applied to m
UpCount(m) == Cardinality({k \in 1..Len(m.ops) : IsUpAxisOp(m.ops[k])})

\* what was done to m to create and place it
PlacementOps(m) == SelectSeq(m.ops, LAMBDA o : ~IsUpAxisOp(o))

ConversionBegun == pc # "build" \/ \E i \in Parts : UpCount(meshes[i]) > 0

(* C1: when export starts, the up-axis rotation has been applied exactly   *)
(* once to every part; and from the moment the conversion has begun no     *)
(* part is created and no part is placed (moved, rotated into place or     *)
(* coloured) any more.                                                     *)
C1_UpAxisExactlyOnce ==
    /\ [](pc \in {"export", "done"} => \A i \in Parts : UpCount(meshes[i]) = 1)
    /\ [][ConversionBegun =>
            /\ Len(meshes') = Len(meshes)
            /\ cur' = NoMesh
            /\ \A i \in Parts : PlacementOps(meshes'[i]) = PlacementOps(meshes[i])]_vars

C1_Witness ==
    /\ pc = "export"
    /\ Len(meshes) = MaxParts
    /\ \E i \in Parts : layout[i].fn = "inline"
    /\ \A i \in Parts : UpCount(meshes[i]) = 1

Verts(m) == m.verts

RECURSIVE Converted(_, _)
Converted(m, n) == IF n = 0 THEN m ELSE convert_up_axis(Converted(m, n - 1))

HalfTurnX(vs) == [k \in 1..Len(vs) |-> <<vs[k][1], -vs[k][2], -vs[k][3]>>]

(* C2: for every part of the scene main converts (native, or already       *)
(* converted once by the loop), two applications of the up-axis        *)
(* conversion turn every vertex (x,y,z) into (x,-y,-z); the result differs *)
(* from one application and from no application; four applications, and no *)
(* fewer, give the original vertices back.                                 *)
C2_TwiceIsHalfTurn ==
    pc = "convert" =>
    \A i \in Parts :
        LET m == meshes[i]
        IN  /\ Verts(Converted(m, 2)) = HalfTurnX(Verts(m))
            /\ Verts(Converted(m, 2)) # Verts(Converted(m, 1))
            /\ Verts(Converted(m, 2)) # Verts(m)
            /\ Verts(Converted(m, 4)) = Verts(m)
            /\ \A n \in 1..3 : Verts(Converted(m, n)) # Verts(m)

C2_Witness ==
    /\ pc = "convert"
    /\ idx = Len(meshes)
    /\ Len(meshes) = MaxParts
    /\ \E i \in Parts : layout[i].fn = "cbox"
    /\ \E i \in Parts : layout[i].fn = "inline"
    /\ \A i \in Parts : Verts(meshes[i]) = Verts(Converted(native[i], 1))

\* the parts the conversion loop has reached
Reached == IF pc = "build" THEN {} ELSE IF pc = "convert" THEN 1..idx ELSE Parts

(* C3: the conversion turns every vertex (x,y,z) of every part into        *)
(* (x, z, -y): the part the loop has reached holds exactly the native      *)
(* vertices so mapped, a part it has not reached is still native, and      *)
(* after the loop no part is left out.                                     *)
C3_ZBecomesY ==
    pc # "build" =>
        /\ Len(native) = Len(meshes)
        /\ \A i \in Parts :
              /\ Len(meshes[i].verts) = Len(native[i].verts)
              /\ \A k \in 1..Len(native[i].verts) :
                    LET v == native[i].verts[k]
                    IN  meshes[i].verts[k] =
                            IF i \in Reached THEN <<v[1], v[3], -v[2]>> ELSE v

C3_Witness ==
    /\ pc = "done"
    /\ Len(meshes) = MaxParts
    /\ \E i \in Parts : layout[i].fn = "ccyl"
    /\ \E i \in Parts : meshes[i].verts # native[i].verts

Coords(m, ax) == {m.verts[k][ax] : k \in 1..Len(m.verts)}

MinC(m, ax) == CHOOSE x \in Coords(m, ax) : \A y \in Coords(m, ax) : x <= y

MaxC(m, ax) == CHOOSE x \in Coords(m, ax) : \A y \in Coords(m, ax) : x >= y

\* the parts as build_board has placed them, while it runs and after it returned
Placed == IF pc = "build" THEN meshes ELSE native

OpNames(m) == [k \in 1..Len(m.ops) |-> m.ops[k].op]

(* C4: every cylinder that build_board rotates and translates is rotated   *)
(* (by rot_x, about its own origin) before it is translated: its bounding  *)
(* box is centred exactly at the translation vector, its axis lies along   *)
(* Y with the cylinder's height as its Y extent, and the mesh being built  *)
(* never carries a translation that is not preceded by its rotation.       *)
C4_RotateThenTranslate ==
    /\ \A i \in 1..Len(Placed) :
          layout[i].fn = "inline" =>
              LET m == Placed[i]
                  a == layout[i]
              IN  /\ OpNames(m) = <<"create", "transform", "translate", "color">>
                  /\ m.ops[2].mat = rot_x
                  /\ \A ax \in 1..3 : MinC(m, ax) + MaxC(m, ax) = 2000 * a.pos[ax]
                  /\ m.verts[1][1] = m.verts[4][1]
                  /\ m.verts[1][3] = m.verts[4][3]
                  /\ Abs(m.verts[1][2] - m.verts[4][2]) = 1000 * a.b
                  /\ MaxC(m, 2) - MinC(m, 2) = 1000 * a.b
    /\ \A k \in 1..Len(cur.ops) :
          cur.ops[k].op = "translate" => \E j \in 1..(k - 1) : cur.ops[j].op = "transform"

C4_Witness ==
    /\ pc = "build"
    /\ Len(meshes) >= 1
    /\ layout[1].fn = "inline"
    /\ layout[1].pos # <<0, 0, 0>>
    /\ cur # NoMesh
    /\ Len(cur.ops) = 3

(* C5: a box made by cbox with positive extents (w,h,d) at position p has  *)
(* a vertex bounding box from p - (w,h,d)/2 to p + (w,h,d)/2.              *)
C5_BoxBounds ==
    (pc = "returned" /\ call.fn = "cbox" /\ call.a > 0 /\ call.b > 0 /\ call.c > 0) =>
        LET e == <<call.a, call.b, call.c>>
        IN  \A ax \in 1..3 :
               /\ MinC(ret, ax) = 1000 * call.pos[ax] - 500 * e[ax]
               /\ MaxC(ret, ax) = 1000 * call.pos[ax] + 500 * e[ax]

C5_Witness ==
    /\ pc = "returned"
    /\ call.fn = "cbox"
    /\ call.a = 1 /\ call.b = MaxDim /\ call.c = 1
    /\ call.pos # <<0, 0, 0>>
    /\ Len(ret.verts) = 8

InvalidCall ==
    \/ call.fn = "cbox" /\ (call.a <= 0 \/ call.b <= 0 \/ call.c <= 0)
    \/ call.fn = "ccyl" /\ (call.a <= 0 \/ call.b <= 0 \/ call.c < 3)

(* C6: a call of cbox with an extent <= 0, or of ccyl with a radius <= 0,  *)
(* a height <= 0 or fewer than 3 sections, raises InvalidDimension and     *)
(* returns no solid.                                                       *)
C6_InvalidDimensionRejected ==
    (pc = "returned" /\ InvalidCall) => (raised = "InvalidDimension" /\ ret = NoMesh)

\* the triangles of m that join the two caps (their vertices differ in z)
SideTriangles(m) ==
    {f \in 1..Len(m.faces) :
        LET t == m.faces[f]
        IN  ~(m.verts[t[1]][3] = m.verts[t[2]][3] /\ m.verts[t[2]][3] = m.verts[t[3]][3])}

(* C7: a cylinder made by ccyl with sections >= 3 has `sections` flat side *)
(* faces (two triangles each), and more vertices than the same cylinder    *)
(* made with fewer sections, fewer than the one made with more.            *)
C7_SideFacesAndVertexCount ==
    (pc = "returned" /\ call.fn = "ccyl" /\ call.c >= 3) =>
        /\ Cardinality(SideTriangles(ret)) = 2 * call.c
        /\ \A s \in Sections :
              LET other == ccyl(call.a, call.b, call.color, call.pos, s)
              IN  /\ s < call.c => Len(other.verts) < Len(ret.verts)
                  /\ s > call.c => Len(other.verts) > Len(ret.verts)

C7_Witness ==
    /\ pc = "returned"
    /\ call.fn = "ccyl"
    /\ call.c = MaxSec - 1
    /\ call.a > 0 /\ call.b > 0
    /\ Cardinality(SideTriangles(ret)) = 2 * (MaxSec - 1)

(* C8: every part of the list has one colour entry per face, each the      *)
(* colour its call site asked for; colouring is the last thing done to a   *)
(* part before it is appended, and it is done once.                        *)
C8_UniformColour ==
    /\ \A i \in Parts :
          /\ Len(meshes[i].colors) = Len(meshes[i].faces)
          /\ \A f \in 1..Len(meshes[i].faces) : meshes[i].colors[f] = layout[i].color
    /\ \A i \in 1..Len(Placed) :
          LET names == OpNames(Placed[i])
          IN  /\ names[Len(names)] = "color"
              /\ \A k \in 1..(Len(names) - 1) : names[k] # "color"

C8_Witness ==
    /\ pc = "convert"
    /\ Len(meshes) = MaxParts
    /\ layout[1].fn = "inline"
    /\ \E i \in Parts : layout[i].fn \in {"cbox", "ccyl"}
    /\ \A i \in Parts : meshes[i].colors[1] # DefaultFaceColor

MeshOfNode(s, i) ==
    LET g == CHOOSE k \in 1..Len(s.geometry) : s.geometry[k].key = s.nodes[i].geometry
    IN  s.geometry[g].mesh

\* part counts at which the width of the ordinal matters
NameSamples == (0..12) \cup {99, 100, 101, 998, 999, 1000, 1001, 1099, 1998, 1999, 2000, 9999, 10000, 10999}

(* C9: while main adds the parts and after it has added them all, the      *)
(* scene holds one node and one geometry per part added, the i-th node is  *)
(* named by the ordinal i and refers to the i-th part of the list as it    *)
(* is, and the ordinal names are pairwise distinct, also above 999.        *)
C9_OneNodePerPart ==
    /\ pc \in {"assemble", "export", "done"} =>
          LET n == IF pc = "assemble" THEN idx ELSE Len(meshes)
          IN  /\ Len(scene.nodes) = n
              /\ Len(scene.geometry) = n
              /\ \A i \in 1..n :
                    /\ scene.nodes[i].name = NodeName(i - 1)
                    /\ MeshOfNode(scene, i) = meshes[i]
              /\ \A i, j \in 1..n : i # j => scene.nodes[i].name # scene.nodes[j].name
    /\ pc = "export" => \A i, j \in NameSamples : i # j => NodeName(i) # NodeName(j)

C9_Witness ==
    /\ pc = "export"
    /\ Len(meshes) = MaxParts
    /\ Len(scene.nodes) = MaxParts
    /\ scene.nodes[MaxParts].name = NodeName(MaxParts - 1)

NamePresent(s, name) == \E k \in 1..Len(s.nodes) : s.nodes[k].name = name

(* C10: an add under a name the scene already holds raises DuplicateName   *)
(* and leaves the scene as it was.                                         *)
C10_DuplicateNameRejected ==
    [][(call'.fn = "add_geometry" /\ NamePresent(scene, call'.name))
          => (raised' = "DuplicateName" /\ scene' = scene)]_vars

(* C11: a part is not changed once it is in the scene: at every moment     *)
(* from its add to the end of main, the i-th part of the list equals, in   *)
(* vertices, faces, colours and history of operations, the value it had    *)
(* when it was added, and the up-axis conversion is the last thing that    *)
(* was done to it.                                                         *)
C11_NoMutationAfterAdd ==
    \A i \in 1..Len(scene.geometry) :
        /\ i <= Len(meshes)
        /\ scene.geometry[i].mesh = meshes[i]
        /\ IsUpAxisOp(meshes[i].ops[Len(meshes[i].ops)])

C11_Witness ==
    /\ pc = "done"
    /\ Len(scene.geometry) = MaxParts
    /\ io.file.exists
    /\ \A i \in Parts : scene.geometry[i].mesh.verts # native[i].verts

(* C13: the file written is a 12-byte header, then the JSON chunk and the  *)
(* BIN chunk, each behind its 8 bytes of length and type; both chunk       *)
(* lengths are multiples of 4, and the header's total length is            *)
(* 12 + 8 + JSON length + 8 + BIN length, the size of the file.            *)
C13_ContainerLayout ==
    io.file.exists =>
        /\ io.file.jsonLen % 4 = 0
        /\ io.file.binLen % 4 = 0
        /\ io.file.total = 12 + 8 + io.file.jsonLen + 8 + io.file.binLen
        /\ io.file.total = io.file.size
        /\ io.file.binLen = BufferBytes(scene.geometry, Len(meshes))

C13_Witness ==
    /\ pc = "done"
    /\ io.file.exists
    /\ Len(meshes) = MaxParts
    /\ io.file.jsonLen = 8
    /\ io.file.binLen > 0

(* C16: when the export fails, the exception that leaves main is the one   *)
(* the export raised, the export was attempted once, the size of the file  *)
(* is not read and neither "Exported" nor "Done!" is printed.              *)
C16_ExportFailureSurfaces ==
    io.failures > 0 =>
        /\ pc = "failed"
        /\ raised \in IoCauses
        /\ io.attempts = 1
        /\ ~io.sizeRead
        /\ \A k \in 1..Len(io.printed) : io.printed[k] \notin {"Exported", "Done!"}
        /\ ~io.file.exists

C16_Witness ==
    /\ pc = "failed"
    /\ raised = "PermissionError"
    /\ io.failures = 1
    /\ Len(scene.nodes) = MaxParts

(* C12: two runs of build_board return part lists that are equal index by  *)
(* index in shape kind, dimensions, colour and position, whatever state    *)
(* the generator was in when each run began.                               *)
C12_Reproducible ==
    pc = "board" =>
        /\ Len(run[1].parts) = Len(run[2].parts)
        /\ \A i \in 1..Len(run[1].parts) : run[1].parts[i].call = run[2].parts[i].call

FillerSections == {"capacitor", "resistor", "via", "bottom"}

CountOf(r, section) == Cardinality({i \in 1..Len(r.parts) : r.parts[i].sec = section})

InSomeZone(x, y) ==
    \/ Abs(x - ic_cx) < 14 * MM /\ Abs(y - ic_cy) < 14 * MM
    \/ y < 15 * MM /\ x < 150 * MM
    \/ y < 58 * MM /\ x > 148 * MM
    \/ y > BH - 5 * MM
    \/ Abs(x - (BW - 52 * MM)) < 28 * MM /\ Abs(y - (BH - 48 * MM)) < 5 * MM

(* C17: every randomly placed filler part has its centre outside every     *)
(* exclusion zone, every candidate that was dropped lay inside a zone, and *)
(* at most 80 random capacitors come out of the at most 120 candidates.    *)
C17_FillersOutsideZones ==
    \A r \in 1..Len(run) :
        /\ \A i \in 1..Len(run[r].parts) :
              run[r].parts[i].sec \in FillerSections =>
                  ~InSomeZone(run[r].parts[i].call.pos[1], run[r].parts[i].call.pos[2])
        /\ \A i \in 1..Len(run[r].cands) : ~InSomeZone(run[r].cands[i][1], run[r].cands[i][2])
        /\ \A i \in 1..Len(run[r].rejected) :
              InSomeZone(run[r].rejected[i].x, run[r].rejected[i].y)
        /\ CountOf(run[r], "capacitor") <= 80
        /\ Len(run[r].cands) + Cardinality({i \in 1..Len(run[r].rejected) :
                                                run[r].rejected[i].sec = "capacitor"}) <= 120
        /\ CountOf(run[r], "resistor") <= 50
        /\ CountOf(run[r], "via") <= 150
        /\ CountOf(run[r], "bottom") <= 30

C17_Witness ==
    /\ pc = "board"
    /\ CountOf(run[1], "capacitor") = 80
    /\ Len(run[1].cands) > 80
    /\ \A section \in FillerSections :
          /\ CountOf(run[1], section) > 0
          /\ \E i \in 1..Len(run[1].rejected) : run[1].rejected[i].sec = section
    /\ \E i \in 1..Len(run[1].rejected) :
          run[1].rejected[i].y < 58 * MM /\ run[1].rejected[i].x > 148 * MM

(* C19: the number of parts, and the shape kind and colour of the part at  *)
(* every index, are the same in two runs whatever state the generator was  *)
(* in at entry: after the first reseed the two generators agree, and two   *)
(* parts at one index can differ only if they are decoupling caps, and     *)
(* then not in where they stand on the board.                              *)
C19_CountKindColourFixed ==
    /\ Len(run[1].parts) = Len(run[2].parts)
    /\ \A i \in 1..Len(run[1].parts) :
          LET p == run[1].parts[i]
              q == run[2].parts[i]
          IN  /\ p.sec = q.sec
              /\ p.call.fn = q.call.fn
              /\ p.call.color = q.call.color
              /\ p # q => /\ p.sec = "decoupling"
                          /\ p.call.pos[1] = q.call.pos[1]
                          /\ p.call.pos[2] = q.call.pos[2]
    /\ pc \notin {"decoupling", "seed42"} => run[1].g = run[2].g
    /\ pc # "decoupling" => CountOf(run[1], "decoupling") = 24

C19_Witness ==
    /\ pc = "board"
    /\ run[1].entry # run[2].entry
    /\ Len(run[1].parts) > 250
    /\ \E i \in 1..Len(run[1].parts) : run[1].parts[i].call.a # run[2].parts[i].call.a

(* C18: every constructor call build_board makes has strictly positive     *)
(* extents, or a strictly positive radius and height and at least 3        *)
(* sections, the derived dimensions and the random sizes times their       *)
(* factors included: no call is one that InvalidDimension is meant for.    *)
C18_CallsMeetPreconditions ==
    (pc = "site" /\ idx > 0) =>
        /\ call.fn = Sites[idx].fn
        /\ call.a > 0
        /\ call.b > 0
        /\ IF call.fn = "cbox" THEN call.c > 0 ELSE call.c >= 3
        /\ ~InvalidCall

C18_Witness ==
    /\ pc = "site"
    /\ idx > 0
    /\ Sites[idx].line = 616
    /\ call.a = 35000
    /\ call.b = 35000

====
